---- MODULE Spec2Model ----
(***************************************************************************)
(* Task dashboards of xcollantes/task-viz: the Google Tasks page           *)
(* (src/pages/task.py) and the Todoist page (src/pages/todoist_viz.py).    *)
(* One script run (a Streamlit page render) is one action.                 *)
(*                                                                         *)
(* Python strings that the code takes apart (timestamps, dates) are        *)
(* sequences of character tokens: a day number n stands for the ten        *)
(* characters "YYYY-MM-DD" of day n, TSep for the letter "T", Clock for    *)
(* the time-of-day remainder, Junk for text that is no date.  Strings the  *)
(* code only compares (ids, titles, names, labels) are TLA+ strings.       *)
(***************************************************************************)
EXTENDS Integers, Sequences, FiniteSets, TLC

VARIABLES page, today, remote, env, session_state, cache, screen

vars == <<page, today, remote, env, session_state, cache, screen>>

----------------------------------------------------------------------------
(* Bounds *)

MaxDay == 1         \* days run from 0 to MaxDay, today from 0 to MaxDay + 1
MaxTasks == 2       \* tasks fetched in one render
MaxBulk == 11       \* tasks of the bulk account (more than the upcoming cap)
MaxArgs == 2        \* values a query parameter carries in one URL

Todays == 0..(MaxDay + 1)

----------------------------------------------------------------------------
(* Strings and dates *)

TSep == 100         \* the character "T" of an RFC 3339 timestamp
Clock == 101        \* the time-of-day text after the "T"
Junk == 102         \* text that is not a date

None == <<-1>>      \* Python None
Absent == <<-2>>    \* the key is not in the dict
NoTitle == "<no title key>"

Timestamp(d) == <<d, TSep, Clock>>

\* str.split("T")[0]: the text before the first "T"
RECURSIVE SplitT0(_)
SplitT0(s) ==
    IF s = <<>> THEN <<>>
    ELSE IF s[1] = TSep THEN <<>>
    ELSE <<s[1]>> \o SplitT0(Tail(s))

\* datetime.datetime.strptime(s, "%Y-%m-%d") succeeds on exactly a date
StrptimeOK(s) == Len(s) = 1 /\ s[1] >= 0 /\ s[1] < TSep
Strptime(s) == s[1]

\* Python's < on str: lexicographic on the characters
RECURSIVE StrLess(_, _)
StrLess(a, b) ==
    IF b = <<>> THEN FALSE
    ELSE IF a = <<>> THEN TRUE
    ELSE IF a[1] # b[1] THEN a[1] < b[1]
    ELSE StrLess(Tail(a), Tail(b))

\* bool(s) of an optional string
Truthy(s) == s # None /\ s # Absent /\ s # <<>>

\* sorted() on the names the model uses (alphabetical order)
NameOrder == <<"All", "Home", "Unknown", "Work">>
StatusOrder == <<"Active", "Completed", "Overdue">>

Sorted(order, S) == SelectSeq(order, LAMBDA n : n \in S)

Range(s) == {s[i] : i \in 1..Len(s)}

RECURSIVE Flatten(_)
Flatten(ss) == IF ss = <<>> THEN <<>> ELSE ss[1] \o Flatten(Tail(ss))

\* Exception messages, str(e)
NoExc == "<none>"
ExcStrptime == "time data does not match format '%Y-%m-%d'"
ExcToDatetime == "Unknown datetime string format"
ExcKeyList == "'list_name'"
ExcKeyProject == "'project_name'"
ExcAuth == "auth failed"
ExcApi == "api failed"
ExcIndex == "list index out of range"   \* IndexError
ExcKeyP == "'p'"                        \* KeyError of url_args["p"]
ExcKeyMain == "KeyError in main"        \* KeyError raised inside main()

----------------------------------------------------------------------------
(* Google Tasks: process_tasks (src/pages/task.py) *)

task_due_date(task) ==
    IF task.due # Absent THEN SplitT0(task.due) ELSE None

task_completed_date(task) ==
    IF task.completed # Absent THEN SplitT0(task.completed) ELSE None

task_is_completed(task) ==
    task.completed # Absent /\ task.completed # <<>>

\* the elif condition is only evaluated for a task that is not completed
task_status_raises(task) ==
    /\ ~task_is_completed(task)
    /\ task.due # Absent
    /\ ~StrptimeOK(task_due_date(task))

task_status(task, now) ==
    IF task_is_completed(task) THEN "Completed"
    ELSE IF task.due # Absent /\ Strptime(task_due_date(task)) < now
         THEN "Overdue"
    ELSE "Active"

\* a lookup that falls back to the id instead of "Unknown"
task_list_name_id_default(all_lists, list_id) ==
    IF \E i \in 1..Len(all_lists) : all_lists[i].id = list_id
    THEN all_lists[CHOOSE i \in 1..Len(all_lists) :
                      all_lists[i].id = list_id].title
    ELSE list_id

\* list_names.get(list_id, "Unknown")
task_list_name(all_lists, list_id) ==
    IF \E i \in 1..Len(all_lists) : all_lists[i].id = list_id
    THEN all_lists[CHOOSE i \in 1..Len(all_lists) :
                      /\ all_lists[i].id = list_id
                      /\ \A j \in (i + 1)..Len(all_lists) :
                            all_lists[j].id # list_id].title
    ELSE "Unknown"

task_row(task, list_id, all_lists, now) ==
    [task_id |-> task.id,
     title |-> task.title,
     list_name |-> task_list_name(all_lists, list_id),
     list_id |-> list_id,
     status |-> task_status(task, now),
     due_date |-> task_due_date(task),
     completed_date |-> task_completed_date(task)]

\* the loop over one list without the "title" not in task check
task_list_rows_no_skip(entry, all_lists, now) ==
    [i \in 1..Len(entry.tasks) |->
        task_row(entry.tasks[i], entry.list_id, all_lists, now)]

\* rows of one list: tasks without a title key are skipped
task_list_rows(entry, all_lists, now) ==
    LET kept == SelectSeq(entry.tasks, LAMBDA t : t.title # NoTitle)
    IN [i \in 1..Len(kept) |-> task_row(kept[i], entry.list_id, all_lists, now)]

\* pd.DataFrame(data): one row per dict, labelled 0..n-1
task_DataFrame(data) ==
    [i \in 1..Len(data) |->
        [index |-> i - 1,
         task_id |-> data[i].task_id,
         title |-> data[i].title,
         list_name |-> data[i].list_name,
         list_id |-> data[i].list_id,
         status |-> data[i].status,
         due_date |-> data[i].due_date,
         completed_date |-> data[i].completed_date]]

\* all_tasks is the dict list_id -> tasks, in insertion order
task_process_tasks(all_tasks, all_lists, now) ==
    LET kept == Flatten([i \in 1..Len(all_tasks) |->
                    SelectSeq(all_tasks[i].tasks, LAMBDA t : t.title # NoTitle)])
    IN IF \E i \in 1..Len(kept) : task_status_raises(kept[i])
       THEN [exc |-> ExcStrptime, df |-> <<>>]
       ELSE [exc |-> NoExc,
             df |-> task_DataFrame(Flatten([i \in 1..Len(all_tasks) |->
                        task_list_rows(all_tasks[i], all_lists, now)]))]

----------------------------------------------------------------------------
(* Todoist: process_tasks (src/pages/todoist_viz.py) *)

\* task.due is None or an object whose .date is the date string
todoist_due_date(task) ==
    IF Truthy(task.due) THEN task.due ELSE None

todoist_completed_date(task) ==
    IF Truthy(task.completed_at) THEN SplitT0(task.completed_at) ELSE None

todoist_status_raises(task) ==
    /\ ~task.is_completed
    /\ Truthy(todoist_due_date(task))
    /\ ~StrptimeOK(todoist_due_date(task))

todoist_status(task, now) ==
    IF task.is_completed THEN "Completed"
    ELSE IF Truthy(todoist_due_date(task))
            /\ Strptime(todoist_due_date(task)) < now
         THEN "Overdue"
    ELSE "Active"

\* project_names.get(task.project_id, "Unknown")
todoist_project_name(all_projects, project_id) ==
    IF \E i \in 1..Len(all_projects) : all_projects[i].id = project_id
    THEN all_projects[CHOOSE i \in 1..Len(all_projects) :
                         /\ all_projects[i].id = project_id
                         /\ \A j \in (i + 1)..Len(all_projects) :
                               all_projects[j].id # project_id].name
    ELSE "Unknown"

todoist_row(task, all_projects, now) ==
    [task_id |-> task.id,
     title |-> task.content,
     project_name |-> todoist_project_name(all_projects, task.project_id),
     project_id |-> task.project_id,
     status |-> todoist_status(task, now),
     due_date |-> todoist_due_date(task),
     completed_date |-> todoist_completed_date(task),
     priority |-> task.priority]

todoist_DataFrame(data) ==
    [i \in 1..Len(data) |->
        [index |-> i - 1,
         task_id |-> data[i].task_id,
         title |-> data[i].title,
         project_name |-> data[i].project_name,
         project_id |-> data[i].project_id,
         status |-> data[i].status,
         due_date |-> data[i].due_date,
         completed_date |-> data[i].completed_date,
         priority |-> data[i].priority]]

\* the body of process_tasks, run on a cache miss
todoist_process_tasks_body(all_tasks, all_projects, now) ==
    IF \E i \in 1..Len(all_tasks) : todoist_status_raises(all_tasks[i])
    THEN [exc |-> ExcStrptime, df |-> <<>>]
    ELSE [exc |-> NoExc,
          df |-> todoist_DataFrame([i \in 1..Len(all_tasks) |->
                    todoist_row(all_tasks[i], all_projects, now)])]

\* @st.cache_data: the result is stored under the arguments (all_tasks,
\* all_projects) and returned for equal arguments; an exception stores nothing
CacheHit(c, all_tasks, all_projects) ==
    \E e \in c : e.all_tasks = all_tasks /\ e.all_projects = all_projects

CacheGet(c, all_tasks, all_projects) ==
    (CHOOSE e \in c :
        e.all_tasks = all_tasks /\ e.all_projects = all_projects).value

todoist_process_tasks(all_tasks, all_projects, now, c) ==
    IF CacheHit(c, all_tasks, all_projects)
    THEN [exc |-> NoExc, df |-> CacheGet(c, all_tasks, all_projects),
          cache |-> c]
    ELSE LET r == todoist_process_tasks_body(all_tasks, all_projects, now)
         IN [exc |-> r.exc, df |-> r.df,
             cache |-> IF r.exc = NoExc
                       THEN c \cup {[all_tasks |-> all_tasks,
                                     all_projects |-> all_projects,
                                     value |-> r.df]}
                       ELSE c]

----------------------------------------------------------------------------
(* pandas helpers used by both create_dashboard functions *)

HeadRows == 10      \* .head(10)

Col(df, c) == [i \in 1..Len(df) |-> df[i][c]]

\* Series.value_counts(): the count of each value present
value_counts(col) ==
    {<<v, Cardinality({i \in 1..Len(col) : col[i] = v})>> : v \in Range(col)}

\* pd.to_datetime: None and "" become NaT, a date parses, other text raises
to_datetime_raises(col) ==
    \E i \in 1..Len(col) :
        col[i] # None /\ col[i] # <<>> /\ ~StrptimeOK(col[i])

\* dropna(subset=["completed_date"]).groupby(date).size()
completed_over_time(df) ==
    LET dated == SelectSeq(Col(df, "completed_date"),
                           LAMBDA d : d # None /\ d # <<>>)
    IN value_counts([i \in 1..Len(dated) |-> Strptime(dated[i])])

\* sort_values("due_date"): ascending; rows with equal keys keep their order
RECURSIVE InsertRow(_, _)
InsertRow(r, s) ==
    IF s = <<>> THEN <<r>>
    ELSE IF ~StrLess(s[1].due_date, r.due_date) THEN <<r>> \o s
    ELSE <<s[1]>> \o InsertRow(r, Tail(s))

RECURSIVE sort_values(_)
sort_values(s) ==
    IF s = <<>> THEN <<>> ELSE InsertRow(s[1], sort_values(Tail(s)))

head(s, n) == SubSeq(s, 1, IF Len(s) < n THEN Len(s) ELSE n)

\* df[(df["status"] == "Active") & (df["due_date"].notna())].sort_values(...)
upcoming_tasks(df) ==
    sort_values(SelectSeq(df, LAMBDA r : r.status = "Active" /\ r.due_date # None))

\* options.index(x): 0-based position of the first equal element
index_of(options, x) ==
    (CHOOSE i \in 1..Len(options) :
        options[i] = x /\ \A j \in 1..(i - 1) : options[j] # x) - 1

\* st.selectbox(label, options): the option at the picked position (the first
\* option before the user picks one)
selectbox(options, i) ==
    IF i \in 1..Len(options) THEN options[i] ELSE options[1]

NoViews ==
    [status_counts |-> {}, group_counts |-> {}, priority_counts |-> {},
     completed_over_time |-> {}, upcoming |-> <<>>, detail |-> <<>>]

----------------------------------------------------------------------------
(* Google Tasks: create_dashboard (src/pages/task.py) *)

task_lists_options(df) ==
    <<"All">> \o Sorted(NameOrder, Range(Col(df, "list_name")))

task_statuses_options(df) ==
    <<"All">> \o Sorted(StatusOrder, Range(Col(df, "status")))

\* the sidebar filters; selected_list and selected_status are the strings
\* the select boxes return
task_filtered_df(df, selected_list, selected_status) ==
    LET by_list == IF selected_list # "All"
                   THEN SelectSeq(df, LAMBDA r : r.list_name = selected_list)
                   ELSE df
    IN IF selected_status # "All"
       THEN SelectSeq(by_list, LAMBDA r : r.status = selected_status)
       ELSE by_list

\* the status chart drawn from the filtered table
task_status_counts_filtered(df, filtered_df) ==
    value_counts(Col(filtered_df, "status"))

task_status_counts(df, filtered_df) == value_counts(Col(df, "status"))
task_list_counts(df, filtered_df) == value_counts(Col(df, "list_name"))
task_completed_over_time(df, filtered_df) == completed_over_time(df)
\* the upcoming view truncated before it is sorted
task_upcoming_head_first(df, filtered_df) ==
    sort_values(head(SelectSeq(df,
        LAMBDA r : r.status = "Active" /\ r.due_date # None), HeadRows))

task_upcoming(df, filtered_df) == head(upcoming_tasks(df), HeadRows)

\* li, si: the positions the user picked in the two select boxes
task_create_dashboard(df, li, si) ==
    IF df = <<>>
    THEN \* a DataFrame without rows has no columns: df["list_name"] raises
         [exc |-> ExcKeyList, elems |-> <<"title", "sidebar.header">>,
          shown |-> <<0, 0, 0>>, views |-> NoViews]
    ELSE
    LET filtered_df == task_filtered_df(df,
                           selectbox(task_lists_options(df), li),
                           selectbox(task_statuses_options(df), si))
        top == <<"title", "sidebar.header", "selectbox:list",
                 "selectbox:status", "subheader", "chart:status",
                 "subheader", "chart:list", "subheader">>
        charts == [NoViews EXCEPT
                     !.status_counts = task_status_counts(df, filtered_df),
                     !.group_counts = task_list_counts(df, filtered_df)]
        shown == <<Len(task_lists_options(df)),
                   Len(task_statuses_options(df)), 0>>
        cot == task_completed_over_time(df, filtered_df)
        up == task_upcoming(df, filtered_df)
    IN IF to_datetime_raises(Col(df, "completed_date"))
          \/ to_datetime_raises(Col(df, "due_date"))
       THEN [exc |-> ExcToDatetime, elems |-> top, shown |-> shown,
             views |-> charts]
       ELSE [exc |-> NoExc, shown |-> shown,
             elems |-> top
                \o <<IF cot # {} THEN "chart:completed"
                     ELSE "write:no completion", "subheader">>
                \o <<IF up # <<>> THEN "table:upcoming"
                     ELSE "write:no upcoming", "subheader">>
                \o <<IF filtered_df # <<>> THEN "dataframe"
                     ELSE "write:no match">>,
             views |-> [charts EXCEPT !.completed_over_time = cot,
                                      !.upcoming = up,
                                      !.detail = filtered_df]]

----------------------------------------------------------------------------
(* Todoist: create_dashboard (src/pages/todoist_viz.py) *)

priorities == <<"All", "1 (Highest)", "2 (High)", "3 (Medium)", "4 (Low)">>

priority_map ==
    [p \in 1..4 |-> CASE p = 4 -> "1 (Highest)" [] p = 3 -> "2 (High)"
                      [] p = 2 -> "3 (Medium)" [] p = 1 -> "4 (Low)"]

todoist_projects_options(df) ==
    <<"All">> \o Sorted(NameOrder, Range(Col(df, "project_name")))

todoist_statuses_options(df) ==
    <<"All">> \o Sorted(StatusOrder, Range(Col(df, "status")))

\* 5 - priorities.index(selected_priority)
priority_value(selected_priority) == 5 - index_of(priorities, selected_priority)

todoist_filtered_df(df, selected_project, selected_status, selected_priority) ==
    LET by_project == IF selected_project # "All"
                      THEN SelectSeq(df, LAMBDA r : r.project_name = selected_project)
                      ELSE df
        by_status == IF selected_status # "All"
                     THEN SelectSeq(by_project, LAMBDA r : r.status = selected_status)
                     ELSE by_project
    IN IF selected_priority # "All"
       THEN SelectSeq(by_status,
                LAMBDA r : r.priority = priority_value(selected_priority))
       ELSE by_status

todoist_status_counts(df, filtered_df) == value_counts(Col(df, "status"))
todoist_project_counts(df, filtered_df) == value_counts(Col(df, "project_name"))
\* df["priority"].map(priority_map).value_counts(): unmapped values are NaN
todoist_priority_counts(df, filtered_df) ==
    LET known == SelectSeq(Col(df, "priority"), LAMBDA p : p \in DOMAIN priority_map)
    IN value_counts([i \in 1..Len(known) |-> priority_map[known[i]]])
todoist_completed_over_time(df, filtered_df) == completed_over_time(df)
todoist_upcoming(df, filtered_df) == head(upcoming_tasks(df), HeadRows)

\* pi_, si, pri: the positions the user picked in the three select boxes
todoist_create_dashboard(df, pi_, si, pri) ==
    IF df = <<>>
    THEN [exc |-> ExcKeyProject, elems |-> <<"title", "sidebar.header">>,
          shown |-> <<0, 0, 0>>, views |-> NoViews]
    ELSE
    LET filtered_df == todoist_filtered_df(df,
                           selectbox(todoist_projects_options(df), pi_),
                           selectbox(todoist_statuses_options(df), si),
                           selectbox(priorities, pri))
        top == <<"title", "sidebar.header", "selectbox:project",
                 "selectbox:status", "selectbox:priority", "subheader",
                 "chart:status", "subheader", "chart:project", "subheader",
                 "chart:priority", "subheader">>
        charts == [NoViews EXCEPT
                     !.status_counts = todoist_status_counts(df, filtered_df),
                     !.group_counts = todoist_project_counts(df, filtered_df),
                     !.priority_counts = todoist_priority_counts(df, filtered_df)]
        shown == <<Len(todoist_projects_options(df)),
                   Len(todoist_statuses_options(df)), Len(priorities)>>
        cot == todoist_completed_over_time(df, filtered_df)
        up == todoist_upcoming(df, filtered_df)
    IN IF to_datetime_raises(Col(df, "completed_date"))
          \/ to_datetime_raises(Col(df, "due_date"))
       THEN [exc |-> ExcToDatetime, elems |-> top, shown |-> shown,
             views |-> charts]
       ELSE [exc |-> NoExc, shown |-> shown,
             elems |-> top
                \o <<IF cot # {} THEN "chart:completed"
                     ELSE "write:no completion", "subheader">>
                \o <<IF up # <<>> THEN "table:upcoming"
                     ELSE "write:no upcoming", "subheader">>
                \o <<IF filtered_df # <<>> THEN "dataframe"
                     ELSE "write:no match">>,
             views |-> [charts EXCEPT !.completed_over_time = cot,
                                      !.upcoming = up,
                                      !.detail = filtered_df]]

----------------------------------------------------------------------------
(* What one script run leaves on the page *)

NoKey == "<no key>"         \* "todoist_api_token" not in st.session_state
EnvUnset == "<unset>"       \* os.getenv returned None
EnvToken == "token-from-env"
TypedToken == "token-typed"

BlankScreen ==
    [runs |-> FALSE,            \* a script run has happened
     today |-> 0,               \* datetime.date.today() during the run
     fail |-> "none",           \* the external call that raised
     sel |-> <<1, 1, 1>>,       \* positions picked in the select boxes
     shown |-> <<0, 0, 0>>,     \* options each select box on the page offers
     token_source |-> "none", env_seen |-> EnvUnset, session_seen |-> NoKey,
     api |-> "",                \* token of the API client, "" if none built
     calls |-> <<>>,            \* provider calls made
     containers |-> <<>>, all_tasks |-> <<>>,
     raised |-> NoExc, stage |-> "none",
     df |-> <<>>, has_df |-> FALSE,
     elems |-> <<>>, msgs |-> <<>>, views |-> NoViews]

Msg(level, text, e) == [level |-> level, text |-> text, exc |-> e]

Raise(sc, e, stage) == [sc EXCEPT !.raised = e, !.stage = stage]

\* except Exception as e: st.error(f"An error occurred: {str(e)}")
Caught(sc) ==
    IF sc.raised # NoExc
    THEN [sc EXCEPT !.msgs = @ \o <<Msg("error", "An error occurred: ", sc.raised)>>]
    ELSE sc

----------------------------------------------------------------------------
(* Google Tasks: main (src/pages/task.py) *)

\* get_tasks(service, task_list_id): the tasks the account holds in that list
task_get_tasks(rem, task_list_id) ==
    IF \E i \in 1..Len(rem.tasks) : rem.tasks[i].list_id = task_list_id
    THEN rem.tasks[CHOOSE i \in 1..Len(rem.tasks) :
                      rem.tasks[i].list_id = task_list_id].tasks
    ELSE <<>>

\* df = process_tasks(all_tasks, task_lists); create_dashboard(df)
task_process_and_render(sc, all_tasks, task_lists, now, li, si) ==
    LET p == task_process_tasks(all_tasks, task_lists, now)
        s3 == [sc EXCEPT !.today = now, !.sel = <<li, si, 1>>,
                         !.containers = task_lists, !.all_tasks = all_tasks]
    IN IF p.exc # NoExc THEN Raise(s3, p.exc, "normalize")
       ELSE LET d == task_create_dashboard(p.df, li, si)
                s4 == [s3 EXCEPT !.df = p.df, !.has_df = TRUE, !.shown = d.shown,
                                 !.elems = @ \o d.elems, !.views = d.views]
            IN IF d.exc # NoExc THEN Raise(s4, d.exc, "render") ELSE s4

task_main_try(rem, now, fail, li, si) ==
    LET s0 == [BlankScreen EXCEPT !.runs = TRUE, !.today = now, !.fail = fail]
        s1 == [s0 EXCEPT !.api = "google", !.calls = <<"tasklists.list">>]
        task_lists == rem.containers
        s2 == [s1 EXCEPT !.containers = task_lists]
        all_tasks == [i \in 1..Len(task_lists) |->
                        [list_id |-> task_lists[i].id,
                         tasks |-> task_get_tasks(rem, task_lists[i].id)]]
    IN IF fail = "auth" THEN Raise(s0, ExcAuth, "auth")
       ELSE IF fail = "containers" THEN Raise(s1, ExcApi, "containers")
       ELSE IF task_lists = <<>>
            THEN [s2 EXCEPT !.msgs = <<Msg("error", "No task lists found!", NoExc)>>]
       ELSE IF fail = "tasks"
            THEN Raise([s2 EXCEPT !.calls = @ \o <<"tasks.list">>], ExcApi, "tasks")
       ELSE task_process_and_render(
                [s2 EXCEPT !.calls = @ \o <<"tasks.list">>],
                all_tasks, task_lists, now, li, si)

task_main(rem, now, fail, li, si) == Caught(task_main_try(rem, now, fail, li, si))

----------------------------------------------------------------------------
(* Todoist: authenticate_todoist_api, get_projects, get_tasks, main
   (src/pages/todoist_viz.py) *)

\* the source the token is taken from
authenticate_source(session, environ, text_input) ==
    IF session # NoKey THEN "session"
    ELSE IF environ # EnvUnset /\ environ # "" THEN "env"
    ELSE IF text_input # "" THEN "input"
    ELSE "none"

\* [api: the token of the client returned ("" for None), session: the new
\*  session state, elems, msgs]
authenticate_todoist_api(session, environ, text_input) ==
    LET src == authenticate_source(session, environ, text_input)
    IN CASE src = "session" ->
              [source |-> src, api |-> session, session |-> session,
               elems |-> <<>>, msgs |-> <<>>]
         [] src = "env" ->
              [source |-> src, api |-> environ, session |-> session,
               elems |-> <<>>, msgs |-> <<>>]
         [] src = "input" ->
              [source |-> src, api |-> text_input, session |-> text_input,
               elems |-> <<"text_input">>, msgs |-> <<>>]
         [] OTHER ->
              [source |-> src, api |-> "", session |-> session,
               elems |-> <<"text_input">>,
               msgs |-> <<Msg("warning",
                   "Please enter your Todoist API token to continue.", NoExc)>>]

\* get_projects / get_tasks catch the client's exception, show it and return []
todoist_get_projects(sc, rem, fail) ==
    IF fail = "containers"
    THEN [value |-> <<>>,
          sc |-> [sc EXCEPT !.calls = @ \o <<"get_projects">>,
                            !.raised = ExcApi, !.stage = "containers",
                            !.msgs = @ \o <<Msg("error", "Error fetching projects: ", ExcApi)>>]]
    ELSE [value |-> rem.containers,
          sc |-> [sc EXCEPT !.calls = @ \o <<"get_projects">>]]

todoist_get_tasks(sc, rem, fail) ==
    IF fail = "tasks"
    THEN [value |-> <<>>,
          sc |-> [sc EXCEPT !.calls = @ \o <<"get_tasks">>,
                            !.raised = ExcApi, !.stage = "tasks",
                            !.msgs = @ \o <<Msg("error", "Error fetching tasks: ", ExcApi)>>]]
    ELSE [value |-> rem.tasks,
          sc |-> [sc EXCEPT !.calls = @ \o <<"get_tasks">>]]

\* df = process_tasks(tasks, projects); create_dashboard(df)
\* returns [sc, cache]
todoist_process_and_render(sc, tasks, projects, now, c, pi_, si, pri) ==
    LET p == todoist_process_tasks(tasks, projects, now, c)
        s3 == [sc EXCEPT !.today = now, !.sel = <<pi_, si, pri>>,
                         !.containers = projects, !.all_tasks = tasks]
    IN IF p.exc # NoExc
       THEN [sc |-> Raise(s3, p.exc, "normalize"), cache |-> p.cache]
       ELSE LET d == todoist_create_dashboard(p.df, pi_, si, pri)
                s4 == [s3 EXCEPT !.df = p.df, !.has_df = TRUE, !.shown = d.shown,
                                 !.elems = @ \o d.elems, !.views = d.views]
            IN [sc |-> IF d.exc # NoExc THEN Raise(s4, d.exc, "render") ELSE s4,
                cache |-> p.cache]

\* returns [sc, session, cache]
todoist_main(rem, now, session, environ, c, text_input, fail, pi_, si, pri) ==
    LET a == authenticate_todoist_api(session, environ, text_input)
        s0 == [BlankScreen EXCEPT !.runs = TRUE, !.today = now, !.fail = fail,
                   !.token_source = a.source, !.env_seen = environ,
                   !.session_seen = session, !.api = a.api,
                   !.elems = a.elems, !.msgs = a.msgs]
        gp == todoist_get_projects(s0, rem, fail)
        gt == todoist_get_tasks(gp.sc, rem, fail)
        r == todoist_process_and_render(gt.sc, gt.value, gp.value, now, c,
                                        pi_, si, pri)
    IN IF a.api = ""
       THEN [sc |-> s0, session |-> a.session, cache |-> c]
       ELSE IF gp.value = <<>>
       THEN [sc |-> [gp.sc EXCEPT !.containers = gp.value, !.msgs = @ \o
                       <<Msg("warning", "No projects found in your Todoist account.", NoExc)>>],
             session |-> a.session, cache |-> c]
       ELSE IF gt.value = <<>>
       THEN [sc |-> [gt.sc EXCEPT !.containers = gp.value, !.msgs = @ \o
                       <<Msg("warning", "No tasks found in your Todoist account.", NoExc)>>],
             session |-> a.session, cache |-> c]
       ELSE [sc |-> Caught(r.sc), session |-> a.session, cache |-> r.cache]

----------------------------------------------------------------------------
(* Provider accounts the pages are run against *)

GTask(title, due, completed) ==
    [id |-> "id", title |-> title, due |-> due, completed |-> completed]

TTask(project_id, due, is_completed, completed_at, priority) ==
    [id |-> "id", content |-> "A", project_id |-> project_id, due |-> due,
     is_completed |-> is_completed, completed_at |-> completed_at,
     priority |-> priority]

SeqsUpTo(S, n) == UNION {[1..k -> S] : k \in 0..n}

Home == [id |-> "L1", name |-> "Home", title |-> "Home"]
Second(name) == [id |-> "L2", name |-> name, title |-> name]

\* Google tasks as the API returns them, with the list that holds them
GoogleTasks ==
    {<<"L1", GTask("A", Absent, Absent)>>,
     <<"L1", GTask("A", Timestamp(0), Absent)>>,
     <<"L1", GTask("A", Timestamp(MaxDay), Absent)>>,
     <<"L1", GTask(NoTitle, Absent, Absent)>>,
     <<"L2", GTask("A", Timestamp(MaxDay), Timestamp(0))>>,
     <<"L2", GTask("A", Absent, Timestamp(0))>>,
     <<"L2", GTask("A", Timestamp(0), <<>>)>>}

\* Todoist tasks as the client returns them
TodoistTasks ==
    {TTask("L1", None, FALSE, None, 4),
     TTask("L1", <<0>>, FALSE, None, 4),
     TTask("L1", <<MaxDay>>, FALSE, None, 2),
     TTask("L2", <<MaxDay>>, TRUE, Timestamp(0), 1),
     TTask("L2", <<0>>, FALSE, Timestamp(0), 1),
     [TTask("L2", None, TRUE, None, 3) EXCEPT !.content = ""]}

ContainerLists == {<<Home>>, <<Home, Second("All")>>}

\* the dict list_id -> tasks built from (list_id, task) pairs
GoogleAllTasks(pairs) ==
    [k \in 1..2 |->
        [list_id |-> <<"L1", "L2">>[k],
         tasks |-> LET mine == SelectSeq(pairs, LAMBDA q : q[1] = <<"L1", "L2">>[k])
                   IN [i \in 1..Len(mine) |-> mine[i][2]]]]

GoogleInputs ==
    {[containers |-> c, tasks |-> GoogleAllTasks(pairs)] :
        c \in ContainerLists, pairs \in SeqsUpTo(GoogleTasks, MaxTasks)}

TodoistInputs ==
    {[containers |-> c, tasks |-> ts] :
        c \in ContainerLists, ts \in SeqsUpTo(TodoistTasks, MaxTasks)}

\* accounts with about HeadRows dated open tasks: tasks due on MaxDay, up to
\* two of them replaced by a task due on day 0 or by a completed task
BulkSeqs(base, special) ==
    {[i \in 1..n |-> IF i = a THEN x ELSE IF i = b THEN y ELSE base] :
        n \in (HeadRows - 1)..MaxBulk, a \in 0..MaxBulk, b \in 0..MaxBulk,
        x \in special, y \in special}

GoogleBulk ==
    {[containers |-> <<Home>>, tasks |-> <<[list_id |-> "L1", tasks |-> ts]>>] :
        ts \in BulkSeqs(GTask("A", Timestamp(MaxDay), Absent),
                        {GTask("A", Timestamp(0), Absent),
                         GTask("A", Timestamp(0), Timestamp(0))})}

TodoistBulk ==
    {[containers |-> <<Home>>, tasks |-> ts] :
        ts \in BulkSeqs(TTask("L1", <<MaxDay>>, FALSE, None, 4),
                        {TTask("L1", <<0>>, FALSE, None, 1),
                         TTask("L1", <<0>>, TRUE, Timestamp(0), 4)})}

\* positions of the three select boxes ("All" and at most three names or
\* statuses; the five priorities)
Selections == (1..4) \X (1..4) \X (1..5)

\* the first run shows every select box at its first option; a later run
\* keeps the positions, or was started by the user changing one select box on
\* the page to another of the options it offers
Rerun(sel) ==
    IF screen.shown = <<0, 0, 0>> THEN sel = <<1, 1, 1>>
    ELSE /\ Cardinality({k \in 1..3 : sel[k] # screen.sel[k]}) <= 1
         /\ \A k \in 1..3 :
               sel[k] \in 1..(IF screen.shown[k] = 0 THEN 1 ELSE screen.shown[k])

----------------------------------------------------------------------------
(* SpecFn: process_tasks and create_dashboard applied to given inputs *)

InitFn ==
    /\ page \in {"google", "todoist"}
    /\ today \in Todays
    /\ remote \in IF page = "google" THEN GoogleInputs ELSE TodoistInputs
    /\ env = EnvUnset
    /\ session_state = NoKey
    /\ cache = {}
    /\ screen = BlankScreen

ApplyGoogle ==
    /\ page = "google"
    /\ \E sel \in Selections :
          /\ Rerun(sel)
          /\ LET sc == task_process_and_render(
                          [BlankScreen EXCEPT !.runs = TRUE],
                          remote.tasks, remote.containers, today, sel[1], sel[2])
             IN screen' = sc
    /\ UNCHANGED <<page, today, remote, env, session_state, cache>>

ApplyTodoist ==
    /\ page = "todoist"
    /\ \E sel \in Selections :
          /\ Rerun(sel)
          /\ LET r == todoist_process_and_render(
                          [BlankScreen EXCEPT !.runs = TRUE],
                          remote.tasks, remote.containers, today, cache,
                          sel[1], sel[2], sel[3])
             IN /\ screen' = r.sc
                /\ cache' = r.cache
    /\ UNCHANGED <<page, today, remote, env, session_state>>

NextFn == ApplyGoogle \/ ApplyTodoist

SpecFn == InitFn /\ [][NextFn]_vars

\* SpecBulk: the same, applied to the accounts with about HeadRows open tasks
InitBulk ==
    /\ page \in {"google", "todoist"}
    /\ today = 0
    /\ remote \in IF page = "google" THEN GoogleBulk ELSE TodoistBulk
    /\ env = EnvUnset
    /\ session_state = NoKey
    /\ cache = {}
    /\ screen = BlankScreen

SpecBulk == InitBulk /\ [][NextFn]_vars

----------------------------------------------------------------------------
(* Spec: page loads against an account, while the date, the environment and
   the browser session change between loads *)

GoogleAccounts ==
    {[containers |-> <<>>, tasks |-> <<>>]}
    \cup {[containers |-> <<Home>>,
           tasks |-> <<[list_id |-> "L1", tasks |-> ts]>>] :
            ts \in {<<>>,
                    <<GTask("A", Timestamp(0), Absent)>>,
                    <<GTask("A", Timestamp(MaxDay), Absent)>>,
                    <<GTask(NoTitle, Absent, Absent)>>,
                    <<GTask("A", <<Junk>>, Absent)>>,
                    <<GTask("A", Absent, <<Junk>>)>>}}

TodoistAccounts ==
    {[containers |-> <<>>, tasks |-> <<>>]}
    \cup {[containers |-> <<Home>>, tasks |-> ts] :
            ts \in {<<>>,
                    <<TTask("L1", <<0>>, FALSE, None, 4)>>,
                    <<TTask("L1", <<MaxDay>>, FALSE, None, 4)>>,
                    <<TTask("L1", <<Junk>>, FALSE, None, 4)>>,
                    <<TTask("L1", None, TRUE, <<Junk>>, 4)>>}}

Init ==
    /\ page \in {"google", "todoist"}
    /\ today \in Todays
    /\ remote \in IF page = "google" THEN GoogleAccounts ELSE TodoistAccounts
    /\ env \in {EnvUnset, EnvToken}
    /\ session_state = NoKey
    /\ cache = {}
    /\ screen = BlankScreen

\* a run of src/pages/task.py
GoogleMain ==
    /\ page = "google"
    /\ \E fail \in {"none", "auth", "containers", "tasks"}, sel \in Selections :
          /\ Rerun(sel)
          /\ screen' = task_main(remote, today, fail, sel[1], sel[2])
    /\ UNCHANGED <<page, today, remote, env, session_state, cache>>

\* a run of src/pages/todoist_viz.py; text_input is what the token box holds
TodoistMain ==
    /\ page = "todoist"
    /\ \E fail \in {"none", "containers", "tasks"}, sel \in Selections,
          text_input \in (IF authenticate_source(session_state, env, "") = "none"
                          THEN {"", TypedToken} ELSE {""}) :
          /\ Rerun(sel)
          /\ LET r == todoist_main(remote, today, session_state, env, cache,
                                   text_input, fail, sel[1], sel[2], sel[3])
             IN /\ screen' = r.sc
                /\ session_state' = r.session
                /\ cache' = r.cache
    /\ UNCHANGED <<page, today, remote, env>>

\* midnight passes
Tick ==
    /\ today < MaxDay + 1
    /\ today' = today + 1
    /\ UNCHANGED <<page, remote, env, session_state, cache, screen>>

\* TODOIST_API_TOKEN is set or removed (.env is read again by every run)
SetEnv ==
    /\ page = "todoist"
    /\ env' = IF env = EnvUnset THEN EnvToken ELSE EnvUnset
    /\ UNCHANGED <<page, today, remote, session_state, cache, screen>>

\* the browser tab is reloaded: a new session, the cache stays
NewSession ==
    /\ session_state # NoKey
    /\ session_state' = NoKey
    /\ screen' = BlankScreen
    /\ UNCHANGED <<page, today, remote, env, cache>>

Next == GoogleMain \/ TodoistMain \/ Tick \/ SetEnv \/ NewSession

Spec == Init /\ [][Next]_vars

----------------------------------------------------------------------------
(* The passphrase gate: is_auth, access_denied (src/pages/url_auth.py) *)

\* st.header("Access is denied")
access_denied(sc) ==
    [sc EXCEPT !.elems = @ \o <<"header: Access is denied">>]

\* main(): the page function handed to is_auth; it draws its page and
\* returns, or raises a KeyError part way
run_main(sc, main) ==
    LET drawn == [sc EXCEPT !.calls = @ \o <<"main">>,
                            !.elems = @ \o <<"main page">>]
    IN IF main = "KeyError" THEN Raise(drawn, ExcKeyMain, "main") ELSE drawn

\* the try block: url_args["p"][0] in st.secrets.passphrases.p
is_auth_try(sc, main, url_args, passphrases) ==
    IF ~url_args.has_p THEN Raise(sc, ExcKeyP, "url_args")
    ELSE IF url_args.p = <<>> THEN Raise(sc, ExcIndex, "url_args")
    ELSE IF url_args.p[1] \in passphrases THEN run_main(sc, main)
    ELSE access_denied(sc)

\* except KeyError: return access_denied(); any other exception leaves
\* is_auth
is_auth(sc, main, url_args, passphrases) ==
    LET t == is_auth_try(sc, main, url_args, passphrases)
    IN IF t.raised \in {ExcKeyP, ExcKeyMain}
       THEN access_denied([t EXCEPT !.raised = NoExc, !.stage = "caught"])
       ELSE t

\* st.experimental_get_query_params(): each key present in the URL with the
\* list of its values; a caller may hand in any dict of lists
QueryValues == {"", "sesame", "open", "guess"}

UrlArgs ==
    {[has_p |-> FALSE, p |-> <<>>]} \cup
    {[has_p |-> TRUE, p |-> v] : v \in SeqsUpTo(QueryValues, MaxArgs)}

\* st.secrets.passphrases.p
Passphrases == {{"sesame"}, {"sesame", "open"}}

MainFunctions == {"returns", "KeyError"}

InitAuth ==
    /\ page = "url_auth"
    /\ today = 0
    /\ remote \in {[url_args |-> u, passphrases |-> ps, main |-> m] :
                      u \in UrlArgs, ps \in Passphrases, m \in MainFunctions}
    /\ env = EnvUnset
    /\ session_state = NoKey
    /\ cache = {}
    /\ screen = BlankScreen

IsAuth ==
    /\ page = "url_auth"
    /\ ~screen.runs
    /\ screen' = is_auth([BlankScreen EXCEPT !.runs = TRUE],
                          remote.main, remote.url_args, remote.passphrases)
    /\ UNCHANGED <<page, today, remote, env, session_state, cache>>

NextAuth == IsAuth

SpecAuth == InitAuth /\ [][NextAuth]_vars

----------------------------------------------------------------------------
(* The claims *)

\* the fetched tasks the rows of the table come from, in row order
RowTasks ==
    IF page = "google"
    THEN Flatten([i \in 1..Len(screen.all_tasks) |->
            SelectSeq(screen.all_tasks[i].tasks, LAMBDA t : t.title # NoTitle)])
    ELSE screen.all_tasks

\* the container id each row's task was fetched under
RowContainerIds ==
    IF page = "google"
    THEN Flatten([i \in 1..Len(screen.all_tasks) |->
            LET kept == SelectSeq(screen.all_tasks[i].tasks,
                                  LAMBDA t : t.title # NoTitle)
            IN [k \in 1..Len(kept) |-> screen.all_tasks[i].list_id]])
    ELSE [i \in 1..Len(screen.all_tasks) |-> screen.all_tasks[i].project_id]

\* a true completed flag or a non-null, non-empty completion timestamp
CompletionMarker(t) ==
    IF page = "google"
    THEN t.completed # Absent /\ t.completed # <<>>
    ELSE t.is_completed \/ (t.completed_at # None /\ t.completed_at # <<>>)

HasDue(t) == IF page = "google" THEN t.due # Absent ELSE t.due # None
DueDay(t) == t.due[1]

Grouping(r) == IF page = "google" THEN r.list_name ELSE r.project_name

DashboardElems == {i \in 1..Len(screen.elems) : screen.elems[i] # "text_input"}

\* the whole dashboard was rendered
Rendered == screen.has_df /\ screen.raised = NoExc

\* C1: every task with a completion marker (a true completed flag or a
\* non-empty completion timestamp) is classified Completed, whatever its due
\* date
C1_MarkerMeansCompleted ==
    screen.has_df =>
        \A i \in 1..Len(screen.df) :
            CompletionMarker(RowTasks[i]) => screen.df[i].status = "Completed"

\* C2: a task without a completion marker is Overdue exactly when it has a
\* due date before the date of the run, and Active otherwise
C2_OverdueIffDueBeforeToday ==
    screen.has_df =>
        \A i \in 1..Len(screen.df) :
            ~CompletionMarker(RowTasks[i]) =>
                screen.df[i].status =
                    (IF HasDue(RowTasks[i]) /\ DueDay(RowTasks[i]) < screen.today
                     THEN "Overdue" ELSE "Active")

\* C3: the status every render shows is the classification against the date
\* of that render, never one kept from an earlier render
C3_StatusRecomputedEveryRender ==
    screen.has_df =>
        \A i \in 1..Len(screen.df) :
            screen.df[i].status =
                (IF page = "google"
                 THEN task_status(RowTasks[i], screen.today)
                 ELSE todoist_status(RowTasks[i], screen.today))

\* the fetch raised nothing and returned no containers or no tasks
EmptyFetch ==
    /\ screen.runs /\ screen.fail = "none" /\ screen.api # ""
    /\ \/ screen.containers = <<>>
       \/ IF page = "google"
          THEN \A i \in 1..Len(screen.all_tasks) : screen.all_tasks[i].tasks = <<>>
          ELSE screen.all_tasks = <<>>

\* C4: an empty fetch ends the run with one explicit empty-result message,
\* no dashboard and no other error message
C4_EmptyFetchIsOneWarning ==
    EmptyFetch =>
        /\ Len(screen.msgs) = 1
        /\ screen.msgs[1].exc = NoExc
        /\ DashboardElems = {}

\* C5: a run in which an exception was raised ends showing exactly one error
\* message, carrying the exception's message, and no dashboard element
C5_ExceptionIsOneErrorNoDashboard ==
    (screen.runs /\ screen.raised # NoExc) =>
        /\ Len(screen.msgs) = 1
        /\ screen.msgs[1].level = "error"
        /\ screen.msgs[1].exc = screen.raised
        /\ DashboardElems = {}

\* C6: the token comes from the environment variable if it is set, else from
\* the session store, else from the text input; without a token no client is
\* built and nothing is fetched
C6_EnvThenSessionThenInput ==
    (page = "todoist" /\ screen.runs) =>
        /\ screen.env_seen # EnvUnset => screen.token_source = "env"
        /\ (screen.env_seen = EnvUnset /\ screen.session_seen # NoKey)
              => screen.token_source = "session"
        /\ screen.token_source = "none" => (screen.api = "" /\ screen.calls = <<>>)

\* the options the grouping and status select boxes offer
GroupOptions == <<"All">> \o Sorted(NameOrder, {Grouping(screen.df[i]) : i \in 1..Len(screen.df)})
StatusOptions == <<"All">> \o Sorted(StatusOrder, {screen.df[i].status : i \in 1..Len(screen.df)})

\* the row passes every select box that is not left at its first option "All"
PassesFilters(r) ==
    /\ screen.sel[1] = 1 \/ Grouping(r) = GroupOptions[screen.sel[1]]
    /\ screen.sel[2] = 1 \/ r.status = StatusOptions[screen.sel[2]]
    /\ screen.sel[3] = 1 \/ r.priority = 6 - screen.sel[3]

\* C7: the detail table is exactly the rows that pass every selected filter,
\* for every grouping name, a list or project named "All" included
C7_DetailIsFilteredRows ==
    Rendered => screen.views.detail = SelectSeq(screen.df, PassesFilters)

\* rows of the table that are open and dated
Qualifying ==
    {i \in 1..Len(screen.df) :
        screen.df[i].status = "Active" /\ screen.df[i].due_date # None}

Up == screen.views.upcoming

\* C8: the upcoming view holds only Active rows with a due date, in
\* ascending due-date order, at most 10 of them, and they are the earliest
\* due such rows of the full table
C8_UpcomingEarliestTen ==
    Rendered =>
        /\ \A k \in 1..Len(Up) :
              /\ Up[k].status = "Active" /\ Up[k].due_date # None
              /\ Up[k].index + 1 \in 1..Len(screen.df)
              /\ Up[k] = screen.df[Up[k].index + 1]
        /\ \A j \in 1..Len(Up), k \in 1..Len(Up) :
              j < k => /\ Up[j].index # Up[k].index
                       /\ Up[j].due_date[1] <= Up[k].due_date[1]
        /\ Len(Up) = IF Cardinality(Qualifying) > 10 THEN 10
                     ELSE Cardinality(Qualifying)
        /\ \A i \in Qualifying :
              (\A k \in 1..Len(Up) : Up[k].index # i - 1) =>
                  \A k \in 1..Len(Up) :
                      Up[k].due_date[1] <= screen.df[i].due_date[1]

\* more than 10 rows qualify, a filter is selected, and a row from beyond the
\* first ten of the table is among the 10 shown
C8_Witness ==
    /\ Rendered /\ Cardinality(Qualifying) > 10 /\ Len(Up) = 10
    /\ screen.sel # <<1, 1, 1>>
    /\ \E k \in 1..Len(Up) : Up[k].index >= 10
    /\ \E i \in Qualifying : \A k \in 1..Len(Up) : Up[k].index # i - 1

ContainerName(c) == IF page = "google" THEN c.title ELSE c.name

\* C9: a row whose container id is not among the fetched containers is named
\* "Unknown"; otherwise it carries that container's name
C9_GroupingNameResolved ==
    screen.has_df =>
        \A i \in 1..Len(screen.df) :
            LET cs == {c \in Range(screen.containers) : c.id = RowContainerIds[i]}
            IN IF cs = {} THEN Grouping(screen.df[i]) = "Unknown"
               ELSE \A c \in cs : Grouping(screen.df[i]) = ContainerName(c)

\* one table with a row of an unknown container and a row of a known one
C9_Witness ==
    /\ screen.has_df
    /\ \E i \in 1..Len(screen.df), j \in 1..Len(screen.df) :
          /\ Grouping(screen.df[i]) = "Unknown"
          /\ \A c \in Range(screen.containers) : c.id # RowContainerIds[i]
          /\ Grouping(screen.df[j]) = "Home"
          /\ RowContainerIds[j] = "L1"

Aggregates ==
    <<screen.views.status_counts, screen.views.group_counts,
      screen.views.priority_counts, screen.views.completed_over_time,
      screen.views.upcoming>>

\* C10: two renders of the same table that differ in the filter selection
\* show the same status, grouping and priority distributions, completion
\* series and upcoming view
C10_FiltersLeaveAggregates ==
    [][(Rendered /\ Rendered' /\ screen'.df = screen.df)
          => Aggregates' = Aggregates]_vars

\* a render with a filter selected that removed rows from the detail table
C10_Witness ==
    /\ Rendered /\ screen.sel # <<1, 1, 1>>
    /\ Len(screen.views.detail) < Len(screen.df)
    /\ screen.views.status_counts # {}
    /\ screen.views.upcoming # <<>>

\* the fetched tasks process_tasks is to keep: on the Google page those with
\* a title key, on the Todoist page all of them
Retained ==
    IF page = "google"
    THEN Flatten([i \in 1..Len(screen.all_tasks) |->
            LET ts == screen.all_tasks[i].tasks
                F[k \in 0..Len(ts)] ==
                    IF k = 0 THEN <<>>
                    ELSE IF ts[k].title = NoTitle THEN F[k - 1]
                         ELSE Append(F[k - 1], ts[k].title)
            IN F[Len(ts)]])
    ELSE [i \in 1..Len(screen.all_tasks) |-> screen.all_tasks[i].content]

Fetched ==
    IF page = "google"
    THEN Flatten([i \in 1..Len(screen.all_tasks) |-> screen.all_tasks[i].tasks])
    ELSE screen.all_tasks

\* C11: the table has exactly one row, in fetch order, for every fetched
\* task the page retains: on the Google page the tasks with a title key (none
\* for a task without one), on the Todoist page every fetched task whatever
\* its title, so that its row count is the number of fetched tasks
C11_OneRowPerRetainedTask ==
    screen.has_df =>
        /\ Len(screen.df) = Len(Retained)
        /\ \A i \in 1..Len(screen.df) :
              /\ screen.df[i].title = Retained[i]
              /\ screen.df[i].title # NoTitle
              /\ screen.df[i].index = i - 1
        /\ page = "todoist" => Len(screen.df) = Len(Fetched)

\* a Google table built from a task with a title and a task without one
C11_Witness ==
    /\ screen.has_df /\ page = "google"
    /\ Len(screen.df) = 1
    /\ Len(Fetched) = 2
    /\ \E i \in 1..2 : Fetched[i].title = NoTitle

MainRan == \E i \in 1..Len(screen.calls) : screen.calls[i] = "main"

Denied ==
    \E i \in 1..Len(screen.elems) : screen.elems[i] = "header: Access is denied"

\* C12: is_auth ends without an exception in exactly one of two outcomes:
\* main was run, or the access-denied visual was rendered; main was run only
\* for a 'p' entry whose first element is a configured passphrase
C12_MainOrDeniedNeverRaises ==
    (page = "url_auth" /\ screen.runs) =>
        /\ screen.raised = NoExc
        /\ MainRan # Denied
        /\ MainRan => /\ remote.url_args.has_p
                      /\ remote.url_args.p # <<>>
                      /\ remote.url_args.p[1] \in remote.passphrases

\* the part of C12 about the passphrase alone: main is never run for a
\* missing or non-matching passphrase
C12_MainOnlyForPassphrase ==
    (page = "url_auth" /\ screen.runs /\ MainRan) =>
        /\ remote.url_args.has_p
        /\ remote.url_args.p # <<>>
        /\ remote.url_args.p[1] \in remote.passphrases

====
